---- MODULE Spec2Model ----
(***************************************************************************)
(* Model of src/app.py: a Streamlit page that, on every script run, looks  *)
(* up the spot price of an index, the option chain and the last prices of  *)
(* the ATM / 1SD / 2SD option legs, and appends one row of combined        *)
(* premiums to st.session_state.chart_data.                                *)
(*                                                                         *)
(* Strings the code edits (instrument keys) are sequences of tokens, so    *)
(* that str.replace is modelled by what it does.  Python's None is the     *)
(* empty sequence and a present value x is <<x>>.  A spot price is the     *)
(* rational n/d, kept exact.                                               *)
(***************************************************************************)
EXTENDS Integers, Sequences, FiniteSets, TLC

VARIABLES
    ACCESS_TOKEN,   \* sidebar text input (line 203)
    symbol,         \* sidebar selectbox (line 206)
    step_size,      \* sidebar number input (line 215)
    chart_data,     \* st.session_state.chart_data (lines 63-64, 258)
    row_symbol,     \* history: the index selected when each row was appended
    now,            \* the clock read by datetime.now() (line 251)
    spot_resp,      \* the response fetch_spot_price received in the last run
    chain_resp,     \* the response get_option_chain_keys received
    prem_resp,      \* the response get_premiums received
    spot_price,     \* line 226
    chain_ret,      \* the value get_option_chain_keys returned (line 235)
    premiums,       \* line 242
    status          \* what the last run showed on the page

vars == <<ACCESS_TOKEN, symbol, step_size, chart_data, row_symbol, now,
          spot_resp, chain_resp, prem_resp, spot_price, chain_ret, premiums,
          status>>

------------------------------------------------------------------------------
(* Bounds of the model *)

MaxRuns == 3        \* script runs after the first page load
MaxHoles == 2       \* strikes the exchange lists but the chain response omits
MaxUnquoted == 2    \* option keys the quote response has no usable entry for
SeriesCap == 2      \* the cap N of the series buffer that the claims speak of

------------------------------------------------------------------------------
(* Python values *)

None == <<>>
Some(x) == <<x>>
IsNone(o) == o = <<>>
Val(o) == o[1]

EmptyDict == [x \in {} |-> x]
DictGet(dict, k, default) == IF k \in DOMAIN dict THEN dict[k] ELSE default

Rat(n, d) == [n |-> n, d |-> d]

\* str.replace(old, new) on a string of tokens
str_replace(s, old, new) == [i \in DOMAIN s |-> IF s[i] = old THEN new ELSE s[i]]

\* round(num / den): Python 3 rounds a tie to the even neighbour
PyRoundPos(num, den) ==
    LET fl == num \div den
        r == num - fl * den
    IN  IF 2 * r < den THEN fl
        ELSE IF 2 * r > den THEN fl + 1
        ELSE IF fl % 2 = 0 THEN fl ELSE fl + 1

PyRoundTruncating(num, den) ==
    IF den > 0 THEN num \div den ELSE (0 - num) \div (0 - den)

PyRound(num, den) ==
    IF den > 0 THEN PyRoundPos(num, den) ELSE PyRoundPos(0 - num, 0 - den)

------------------------------------------------------------------------------
(* The Upstox API as the code sees it.  The exchange lists a ladder of      *)
(* strikes per index; every listed strike has a call and a put, each with   *)
(* an instrument key (SEGMENT|NAME) and a last traded price.  Responses are *)
(* keyed by the colon form of the key (SEGMENT:NAME).                       *)

Symbols == {"NIFTY", "BANKNIFTY"}

\* symbol_map / underlying_key: the request key of an index
symbol_map(sym) ==
    IF sym = "NIFTY" THEN <<"NSE_INDEX", "|", "Nifty 50">>
    ELSE <<"NSE_INDEX", "|", "Nifty Bank">>

underlying_key(sym) ==
    IF sym = "NIFTY" THEN <<"NSE_INDEX", "|", "Nifty 50">>
    ELSE <<"NSE_INDEX", "|", "Nifty Bank">>

\* the key format of the API's responses
UpstoxResponseKey(id) == [i \in DOMAIN id |-> IF id[i] = "|" THEN ":" ELSE id[i]]

ListedStrikes(ukey) ==
    IF ukey = <<"NSE_INDEX", "|", "Nifty 50">>
    THEN {24600 + 50 * i : i \in 0..4}
    ELSE {51000 + 100 * i : i \in 0..4}

AllStrikes == ListedStrikes(underlying_key("NIFTY")) \cup ListedStrikes(underlying_key("BANKNIFTY"))

OptionTypes == {"CE", "PE"}

OptionKey(s, t) == <<"NSE_FO", "|", ToString(s), t>>

AllOptionKeys == {OptionKey(s, t) : s \in AllStrikes, t \in OptionTypes}

\* the market's last traded price of an option: it differs by strike and by type
MarketLTP(s, t) ==
    IF t = "CE" THEN 100 + 10 * ((s \div 50) % 3) ELSE 60 + 7 * ((s \div 50) % 4)

KeyLTP(id) ==
    LET st == CHOOSE st \in AllStrikes \X OptionTypes : OptionKey(st[1], st[2]) = id
    IN  MarketLTP(st[1], st[2])

RECURSIVE SortedSeq(_)
SortedSeq(S) ==
    IF S = {} THEN <<>>
    ELSE LET m == CHOOSE x \in S : \A y \in S : x <= y
         IN  <<m>> \o SortedSeq(S \ {m})

ChainItem(s) ==
    [strike_price |-> s,
     call_options |-> [instrument_key |-> OptionKey(s, "CE")],
     put_options  |-> [instrument_key |-> OptionKey(s, "PE")]]

\* A response: kind "exception" (requests.get or response.json() raised),
\* or "json" with a status and, when has_data, a data field.
NoResponse == [kind |-> "none", status |-> "", has_data |-> FALSE, data |-> EmptyDict]
Raised == [kind |-> "exception", status |-> "", has_data |-> FALSE, data |-> EmptyDict]
Json(st, has, d) == [kind |-> "json", status |-> st, has_data |-> has, data |-> d]

\* GET market-quote/ltp for the index key
SpotResponse(request_key, o) ==
    CASE o.kind = "exception" -> Raised
      [] o.kind = "error" -> Json("error", FALSE, EmptyDict)
      [] o.kind = "nodata" -> Json("success", FALSE, EmptyDict)
      [] o.kind = "nokey" -> Json("success", TRUE, EmptyDict)
      [] OTHER ->
            Json("success", TRUE,
                 [k \in {UpstoxResponseKey(request_key)} |-> [last_price |-> o.price]])

\* GET option/chain for the index key
ChainResponse(request_key, o) ==
    CASE o.kind = "exception" -> Raised
      [] o.kind = "error" -> Json("error", FALSE, EmptyDict)
      [] o.kind = "nodata" -> Json("success", FALSE, EmptyDict)
      [] OTHER ->
            LET listed == SortedSeq(ListedStrikes(request_key) \ o.holes)
            IN  Json("success", TRUE, [i \in DOMAIN listed |-> ChainItem(listed[i])])

\* GET market-quote/ltp for the comma-joined option keys
QuoteResponse(request_keys, o) ==
    CASE o.kind = "exception" -> Raised
      [] o.kind = "error" -> Json("error", FALSE, EmptyDict)
      [] o.kind = "nodata" -> Json("success", FALSE, EmptyDict)
      [] OTHER ->
            LET known == request_keys \cap AllOptionKeys
                shown == IF o.bare THEN known ELSE known \ o.unquoted
                Entry(k) ==
                    LET id == CHOOSE id \in shown : UpstoxResponseKey(id) = k
                    IN  IF id \in o.unquoted
                        THEN [instrument_token |-> id]
                        ELSE [instrument_token |-> id, last_price |-> KeyLTP(id)]
            IN  Json("success", TRUE,
                     [k \in {UpstoxResponseKey(id) : id \in shown} |-> Entry(k)])

------------------------------------------------------------------------------
(* The helper functions of the page *)

\* the key a response is looked up by: instrument_key.replace('|', ':')
ResponseKeyUntranslated(instrument_key) == instrument_key

ResponseKey(instrument_key) == str_replace(instrument_key, "|", ":")

\* fetch_spot_price: the last price of the index, or None; any exception in
\* the try block (transport, no 'data', no entry for the key) is caught
fetch_spot_price(resp, sym) ==
    LET instrument_key == symbol_map(sym)
        key_in_response == ResponseKey(instrument_key)
    IN  IF resp.kind = "exception" THEN None
        ELSE IF resp.status = "success"
        THEN IF /\ resp.has_data
                /\ key_in_response \in DOMAIN resp.data
                /\ "last_price" \in DOMAIN resp.data[key_in_response]
             THEN Some(resp.data[key_in_response].last_price)
             ELSE None
        ELSE None

\* the strikes dict of get_option_chain_keys
TargetStrikes(spot_p, step) ==
    LET atm_strike == PyRound(spot_p.n, spot_p.d * step) * step
    IN  [k \in {"ATM", "1SD_UP", "1SD_DN", "2SD_UP", "2SD_DN"} |->
            CASE k = "ATM" -> atm_strike
              [] k = "1SD_UP" -> atm_strike + (1 * step)
              [] k = "1SD_DN" -> atm_strike - (1 * step)
              [] k = "2SD_UP" -> atm_strike + (2 * step)
              [] OTHER -> atm_strike - (2 * step)]

DictSet(dict, k, v) == [x \in DOMAIN dict \cup {k} |-> IF x = k THEN v ELSE dict[x]]

\* one iteration of the loop over chain_data
CaptureItemSwapped(item, strikes, found_keys) ==
    LET s_price == item.strike_price
        f1 == IF s_price = strikes["ATM"]
              THEN DictSet(DictSet(found_keys, "ATM_CE", item.call_options.instrument_key),
                           "ATM_PE", item.put_options.instrument_key)
              ELSE found_keys
        f2 == IF s_price = strikes["1SD_DN"]
              THEN DictSet(f1, "1SD_PE", item.call_options.instrument_key) ELSE f1
        f3 == IF s_price = strikes["1SD_UP"]
              THEN DictSet(f2, "1SD_CE", item.put_options.instrument_key) ELSE f2
        f4 == IF s_price = strikes["2SD_DN"]
              THEN DictSet(f3, "2SD_PE", item.call_options.instrument_key) ELSE f3
    IN  IF s_price = strikes["2SD_UP"]
        THEN DictSet(f4, "2SD_CE", item.put_options.instrument_key) ELSE f4

CaptureItem(item, strikes, found_keys) ==
    LET s_price == item.strike_price
        f1 == IF s_price = strikes["ATM"]
              THEN DictSet(DictSet(found_keys, "ATM_CE", item.call_options.instrument_key),
                           "ATM_PE", item.put_options.instrument_key)
              ELSE found_keys
        f2 == IF s_price = strikes["1SD_DN"]
              THEN DictSet(f1, "1SD_PE", item.put_options.instrument_key) ELSE f1
        f3 == IF s_price = strikes["1SD_UP"]
              THEN DictSet(f2, "1SD_CE", item.call_options.instrument_key) ELSE f2
        f4 == IF s_price = strikes["2SD_DN"]
              THEN DictSet(f3, "2SD_PE", item.put_options.instrument_key) ELSE f3
    IN  IF s_price = strikes["2SD_UP"]
        THEN DictSet(f4, "2SD_CE", item.call_options.instrument_key) ELSE f4

RECURSIVE CaptureKeys(_, _, _, _)
CaptureKeys(chain_data, i, strikes, found_keys) ==
    IF i > Len(chain_data) THEN found_keys
    ELSE CaptureKeys(chain_data, i + 1, strikes,
                     CaptureItem(chain_data[i], strikes, found_keys))

\* What get_option_chain_keys returns: the bare None of line 118, or a pair
ReturnNone == [tag |-> "None", keys |-> None, strikes |-> None]
ReturnPair(k, s) == [tag |-> "tuple", keys |-> k, strikes |-> s]
NotCalled == [tag |-> "not called", keys |-> None, strikes |-> None]

get_option_chain_keys(resp, spot_p, step) ==
    IF resp.kind = "exception" THEN ReturnPair(None, None)
    ELSE IF resp.status # "success" THEN ReturnNone
    ELSE IF ~resp.has_data THEN ReturnPair(None, None)     \* KeyError, caught
    ELSE IF step = 0 THEN ReturnPair(None, None)           \* ZeroDivisionError, caught
    ELSE LET strikes == TargetStrikes(spot_p, step)
         IN  ReturnPair(Some(CaptureKeys(resp.data, 1, strikes, EmptyDict)), Some(strikes))

\* get_premiums: the last price of every key found, 0 for a key without one
get_premiums_zero_on_failure(resp, keys_dict) ==
    IF keys_dict = EmptyDict THEN None
    ELSE IF resp.kind = "json" /\ resp.status = "success" /\ resp.has_data
    THEN Some([k \in DOMAIN keys_dict |->
                 LET resp_key == ResponseKey(keys_dict[k])
                 IN  DictGet(DictGet(resp.data, resp_key, EmptyDict), "last_price", 0)])
    ELSE Some([k \in DOMAIN keys_dict |-> 0])

get_premiums(resp, keys_dict) ==
    IF keys_dict = EmptyDict THEN None
    ELSE IF resp.kind = "exception" THEN None
    ELSE IF resp.status = "success"
    THEN IF ~resp.has_data THEN None                        \* KeyError, caught
         ELSE Some([k \in DOMAIN keys_dict |->
                      LET resp_key == ResponseKey(keys_dict[k])
                      IN  DictGet(DictGet(resp.data, resp_key, EmptyDict), "last_price", 0)])
    ELSE None

------------------------------------------------------------------------------
(* The script: one run of the page, top to bottom *)

Tokens == {"", "bearer-token"}

\* `if ACCESS_TOKEN:`
TokenGivenAlways(tok) == TRUE

TokenGiven(tok) == tok # ""

\* `if spot_price:`  (None and 0 are both falsy)
SpotTruthy(sp) == ~IsNone(sp) /\ Val(sp).n # 0

\* `if keys and strikes:`
KeysTruthy(ret) ==
    /\ ~IsNone(ret.keys) /\ Val(ret.keys) # EmptyDict
    /\ ~IsNone(ret.strikes) /\ Val(ret.strikes) # EmptyDict

\* `if premiums:`
PremiumsTruthy(prem) == ~IsNone(prem) /\ Val(prem) # EmptyDict

\* lines 246-248: the combined premium of a band
BandValueBothLegs(prem, ce, pe) ==
    IF ce \in DOMAIN prem /\ pe \in DOMAIN prem /\ prem[ce] # 0 /\ prem[pe] # 0
    THEN prem[ce] + prem[pe] ELSE 0

BandValue(prem, ce, pe) == DictGet(prem, ce, 0) + DictGet(prem, pe, 0)

\* lines 252-257
NewRow(prem, current_time) ==
    [Time |-> current_time,
     ATM_Straddle |-> BandValue(prem, "ATM_CE", "ATM_PE"),
     Strangle_1SD |-> BandValue(prem, "1SD_CE", "1SD_PE"),
     Strangle_2SD |-> BandValue(prem, "2SD_CE", "2SD_PE")]

\* the values of the keys dict: the identifiers get_premiums asks for
DictValues(dict) == {dict[k] : k \in DOMAIN dict}

\* What a run leaves behind: the responses it received, its variables, the
\* series and the branch of the page it ended in
Page(sresp, sp, cresp, cret, presp, prem, cd, appended, st) ==
    [spot_resp |-> sresp, spot_price |-> sp, chain_resp |-> cresp, chain_ret |-> cret,
     prem_resp |-> presp, premiums |-> prem, chart_data |-> cd, appended |-> appended,
     status |-> st]

\* lines 244-307
WithPremiums(cd, clock, sresp, sp, cresp, cret, presp, prem) ==
    IF PremiumsTruthy(prem)
    THEN Page(sresp, sp, cresp, cret, presp, prem,
              Append(cd, NewRow(Val(prem), clock)), TRUE, "chart")
    ELSE Page(sresp, sp, cresp, cret, presp, prem, cd, FALSE, "no premiums")

\* line 242
WithQuotes(cd, clock, sresp, sp, cresp, cret, presp) ==
    WithPremiums(cd, clock, sresp, sp, cresp, cret, presp,
                 get_premiums(presp, Val(cret.keys)))

\* lines 235-309: unpacking the bare None of line 118 raises TypeError
WithChainReturn(env, cd, clock, sresp, sp, cresp, cret) ==
    IF cret.tag = "None"
    THEN Page(sresp, sp, cresp, cret, NoResponse, None, cd, FALSE, "exception")
    ELSE IF KeysTruthy(cret)
    THEN WithQuotes(cd, clock, sresp, sp, cresp, cret,
                    QuoteResponse(DictValues(Val(cret.keys)), env.quote))
    ELSE Page(sresp, sp, cresp, cret, NoResponse, None, cd, FALSE, "no matching strikes")

\* line 235
WithChain(step, env, cd, clock, sresp, sp, cresp) ==
    WithChainReturn(env, cd, clock, sresp, sp, cresp,
                    get_option_chain_keys(cresp, Val(sp), step))

\* lines 228-311
WithSpot(sym, step, env, cd, clock, sresp, sp) ==
    IF SpotTruthy(sp)
    THEN WithChain(step, env, cd, clock, sresp, sp,
                   ChainResponse(underlying_key(sym), env.chain))
    ELSE Page(sresp, sp, NoResponse, NotCalled, NoResponse, None, cd, FALSE,
              "spot fetch failed")

\* line 226
WithSpotResponse(sym, step, env, cd, clock, sresp) ==
    WithSpot(sym, step, env, cd, clock, sresp, fetch_spot_price(sresp, sym))

\* lines 224-313.  env holds what the three lookups meet, should they be issued.
Script(tok, sym, step, env, cd, clock) ==
    IF TokenGiven(tok)
    THEN WithSpotResponse(sym, step, env, cd, clock,
                          SpotResponse(symbol_map(sym), env.spot))
    ELSE Page(NoResponse, None, NoResponse, NotCalled, NoResponse, None, cd, FALSE,
              "enter token")

------------------------------------------------------------------------------
(* What the lookups of a run may meet *)

default_step(sym) == IF sym = "NIFTY" THEN 50 ELSE 100

Outcome(k) == [kind |-> k, price |-> Rat(0, 1), holes |-> {}, unquoted |-> {}, bare |-> FALSE]

SpotOutcomes(prices) ==
    {Outcome(k) : k \in {"exception", "error", "nodata", "nokey"}}
    \cup {[Outcome("price") EXCEPT !.price = p] : p \in prices}

ChainOutcomes(holeSets) ==
    {Outcome(k) : k \in {"exception", "error", "nodata"}}
    \cup {[Outcome("chain") EXCEPT !.holes = h] : h \in holeSets}

QuoteOutcomes(unquotedSets) ==
    {Outcome(k) : k \in {"exception", "error", "nodata"}}
    \cup {o \in {[Outcome("quotes") EXCEPT !.unquoted = u, !.bare = b] :
                      u \in unquotedSets, b \in BOOLEAN} : o.bare => o.unquoted # {}}

Envs(spots, chains, quotes) == [spot : spots, chain : chains, quote : quotes]

\* a session: one price per index, a chain that is whole, lacks the ATM strike,
\* lacks the upper 1SD strike or is empty, and quotes that are whole or lack the ATM put
SessionSpot(sym) == IF sym = "NIFTY" THEN Rat(24687, 1) ELSE Rat(51230, 1)

SessionAtm(sym) == IF sym = "NIFTY" THEN 24700 ELSE 51200

SessionEnvs(sym) ==
    Envs(SpotOutcomes({SessionSpot(sym)}) \ {Outcome("nodata")},
         ChainOutcomes({{}, {SessionAtm(sym)}, {SessionAtm(sym) + default_step(sym)},
                        ListedStrikes(underlying_key(sym))}) \ {Outcome("nodata")},
         QuoteOutcomes({{}, {OptionKey(SessionAtm(sym), "PE")}}) \ {Outcome("nodata")})

SessionSteps == {0, 50, 100}

\* a single run: every price, step, chain and quote set within the bounds
CycleSpots(sym) ==
    IF sym = "NIFTY"
    THEN {Rat(24687, 1), Rat(24725, 1), Rat(24775, 1), Rat(2468735, 100), Rat(49425, 2)}
    ELSE {Rat(51230, 1), Rat(51250, 1), Rat(51150, 1)}

CycleSteps == {-50, 25, 50, 100}

CycleEnvs(sym) ==
    Envs(SpotOutcomes(CycleSpots(sym)),
         ChainOutcomes({h \in SUBSET ListedStrikes(underlying_key(sym)) :
                          Cardinality(h) <= MaxHoles}),
         QuoteOutcomes({u \in SUBSET {OptionKey(s, t) :
                                         s \in ListedStrikes(underlying_key(sym)),
                                         t \in OptionTypes} :
                          Cardinality(u) <= MaxUnquoted}))

------------------------------------------------------------------------------
(* State machine: every widget interaction reruns the script *)

Init ==
    /\ ACCESS_TOKEN = ""
    /\ symbol = "NIFTY"
    /\ step_size = default_step("NIFTY")
    /\ chart_data = <<>>
    /\ row_symbol = <<>>
    /\ now = 0
    /\ spot_resp = NoResponse
    /\ chain_resp = NoResponse
    /\ prem_resp = NoResponse
    /\ spot_price = None
    /\ chain_ret = NotCalled
    /\ premiums = None
    /\ status = "enter token"

Commit(tok, sym, step, r) ==
    /\ ACCESS_TOKEN' = tok
    /\ symbol' = sym
    /\ step_size' = step
    /\ now' = now + 1
    /\ chart_data' = r.chart_data
    /\ row_symbol' = IF r.appended THEN Append(row_symbol, sym) ELSE row_symbol
    /\ spot_resp' = r.spot_resp
    /\ chain_resp' = r.chain_resp
    /\ prem_resp' = r.prem_resp
    /\ spot_price' = r.spot_price
    /\ chain_ret' = r.chain_ret
    /\ premiums' = r.premiums
    /\ status' = r.status

\* one run of the script under the widget values tok, sym, step
Run(tok, sym, step, env) ==
    /\ now < MaxRuns
    /\ Commit(tok, sym, step, Script(tok, sym, step, env, chart_data, now + 1))

\* the user types into "API Token"
EnterToken(tok, env) == tok # ACCESS_TOKEN /\ Run(tok, symbol, step_size, env)

\* the user picks another index; the step input falls back to that index's default
SelectIndex(sym, env) == sym # symbol /\ Run(ACCESS_TOKEN, sym, default_step(sym), env)

\* the user edits "Strike Step (SD Width)"
SetStep(n, env) == n # step_size /\ Run(ACCESS_TOKEN, symbol, n, env)

\* the user clicks "Refresh Data" (st.rerun)
RefreshData(env) == Run(ACCESS_TOKEN, symbol, step_size, env)

Next ==
    \/ \E tok \in Tokens, env \in SessionEnvs(symbol) : EnterToken(tok, env)
    \/ \E sym \in Symbols : \E env \in SessionEnvs(sym) : SelectIndex(sym, env)
    \/ \E n \in SessionSteps, env \in SessionEnvs(symbol) : SetStep(n, env)
    \/ \E env \in SessionEnvs(symbol) : RefreshData(env)

Spec == Init /\ [][Next]_vars

\* One run of the script with a token, over every index, step, price, chain and quote set
InitCycle ==
    /\ ACCESS_TOKEN = "bearer-token"
    /\ symbol \in Symbols
    /\ step_size \in CycleSteps
    /\ chart_data = <<>>
    /\ row_symbol = <<>>
    /\ now = 0
    /\ spot_resp = NoResponse
    /\ chain_resp = NoResponse
    /\ prem_resp = NoResponse
    /\ spot_price = None
    /\ chain_ret = NotCalled
    /\ premiums = None
    /\ status = "enter token"

NextCycle == \E env \in CycleEnvs(symbol) : now = 0 /\ RefreshData(env)

SpecCycle == InitCycle /\ [][NextCycle]_vars

------------------------------------------------------------------------------
(* Vocabulary of the properties, read off the state a run leaves behind *)

Succeeded(resp) == resp.kind = "json" /\ resp.status = "success" /\ resp.has_data

\* the lookup was issued and failed as a whole
FailedWhole(resp) == resp.kind = "exception" \/ (resp.kind = "json" /\ resp.status # "success")

LastRow == chart_data[Len(chart_data)]

FoundKeys == IF IsNone(chain_ret.keys) THEN EmptyDict ELSE Val(chain_ret.keys)

\* the colon counterpart of a pipe-delimited identifier
ColonForm(id) == [i \in DOMAIN id |-> IF id[i] = "|" THEN ":" ELSE id[i]]

\* the quote response carries a last price for the identifier
Quoted(id) ==
    /\ Succeeded(prem_resp)
    /\ ColonForm(id) \in DOMAIN prem_resp.data
    /\ "last_price" \in DOMAIN prem_resp.data[ColonForm(id)]

\* the strikes the chain response lists
ChainStrikes ==
    IF Succeeded(chain_resp)
    THEN {chain_resp.data[i].strike_price : i \in DOMAIN chain_resp.data}
    ELSE {}

\* a leg (the option of type t at strike s) is available: the chain lists the
\* strike and the quote response has a last price for the option
LegAvailable(s, t) == s \in ChainStrikes /\ Quoted(OptionKey(s, t))

\* the price a leg contributes under the reference reduction
RefLeg(s, t) ==
    IF LegAvailable(s, t) THEN prem_resp.data[ColonForm(OptionKey(s, t))].last_price ELSE 0

Atm == Val(chain_ret.strikes)["ATM"]

------------------------------------------------------------------------------
(* C1 *)

\* C1: the series buffer never holds more than the cap N of rows
C1_SeriesNeverExceedsCap == Len(chart_data) <= SeriesCap

(* C2 *)

AtmLegUnavailable ==
    /\ chain_ret.tag = "tuple" /\ ~IsNone(chain_ret.strikes)
    /\ \/ Atm \notin ChainStrikes
       \/ Succeeded(prem_resp) /\ \E t \in OptionTypes : ~LegAvailable(Atm, t)

\* C2: a run in which an ATM leg is unavailable appends no row
C2_AtmLegMissingAppendsNothing ==
    [][AtmLegUnavailable' => Len(chart_data') = Len(chart_data)]_vars

(* C3 *)

\* C3: no exception escapes a run, and get_option_chain_keys always returns
\* a value that unpacks into the pair (keys, strikes)
C3_NoExceptionEscapes == status # "exception" /\ chain_ret.tag # "None"

(* C4 *)

\* C4: every row of the series was recorded under the index now selected
C4_RowsOfSelectedIndexOnly == \A i \in DOMAIN row_symbol : row_symbol[i] = symbol

(* C5 *)

\* the call strike and the put strike of band k (k = 1, 2) under the fixed-step policy
UpperStrike(k) == Atm + k * step_size
LowerStrike(k) == Atm - k * step_size

StrangleOf(row, k) == IF k = 1 THEN row.Strangle_1SD ELSE row.Strangle_2SD

C6_RowIsReferenceReduction ==
    status = "chart" =>
        /\ LastRow.ATM_Straddle = RefLeg(Atm, "CE") + RefLeg(Atm, "PE")
        /\ \A k \in {1, 2} :
              StrangleOf(LastRow, k) = RefLeg(Atm + k * step_size, "CE")
                                        + RefLeg(Atm - k * step_size, "PE")

\* a row appended with all six legs available
C6_Witness ==
    /\ status = "chart"
    /\ \A t \in OptionTypes : LegAvailable(Atm, t)
    /\ \A k \in {1, 2} : LegAvailable(UpperStrike(k), "CE") /\ LegAvailable(LowerStrike(k), "PE")
    /\ LastRow.Strangle_1SD # LastRow.Strangle_2SD

(* C7 *)

AbsDiff(a, b) == IF a >= b THEN a - b ELSE b - a

StrikesComputed == chain_ret.tag = "tuple" /\ ~IsNone(chain_ret.strikes)

\* C7: for a positive step the ATM strike is a multiple of the step within
\* step/2 of the spot n/d, a tie going to the even multiple (Python's round);
\* the band strikes are ATM +/- step and ATM +/- 2*step, multiples of the step
\* too.  Spot 24687 with step 50 gives 24700.
C7_AtmIsNearestMultiple ==
    (StrikesComputed /\ step_size > 0) =>
        LET sp == Val(spot_price)
            strikes == Val(chain_ret.strikes)
        IN  /\ Atm % step_size = 0
            /\ 2 * AbsDiff(Atm * sp.d, sp.n) <= step_size * sp.d
            /\ 2 * AbsDiff(Atm * sp.d, sp.n) = step_size * sp.d
                  => (Atm \div step_size) % 2 = 0
            /\ strikes["1SD_UP"] = Atm + step_size /\ strikes["1SD_DN"] = Atm - step_size
            /\ strikes["2SD_UP"] = Atm + 2 * step_size
            /\ strikes["2SD_DN"] = Atm - 2 * step_size
            /\ \A k \in DOMAIN strikes : strikes[k] % step_size = 0
            /\ (sp = Rat(24687, 1) /\ step_size = 50) => Atm = 24700

\* strikes computed for a spot exactly half way between two multiples of the step
C7_Witness ==
    /\ StrikesComputed /\ step_size > 0
    /\ 2 * AbsDiff(Atm * Val(spot_price).d, Val(spot_price).n) = step_size * Val(spot_price).d

(* C8 *)

HasLastPrice(resp, k) ==
    Succeeded(resp) /\ k \in DOMAIN resp.data /\ "last_price" \in DOMAIN resp.data[k]

\* C8: every requested identifier whose colon counterpart is in a successful
\* response is given that entry's last price, by fetch_spot_price and by
\* get_premiums, and get_premiums prices every identifier it was asked for
C8_ColonCounterpartMatched ==
    /\ HasLastPrice(spot_resp, ColonForm(symbol_map(symbol)))
          => spot_price = Some(spot_resp.data[ColonForm(symbol_map(symbol))].last_price)
    /\ Succeeded(prem_resp) =>
          /\ ~IsNone(premiums)
          /\ DOMAIN Val(premiums) = DOMAIN FoundKeys
          /\ \A name \in DOMAIN FoundKeys :
                HasLastPrice(prem_resp, ColonForm(FoundKeys[name]))
                   => Val(premiums)[name]
                         = prem_resp.data[ColonForm(FoundKeys[name])].last_price

\* six identifiers requested, five of them priced in the response
C8_Witness ==
    /\ Succeeded(prem_resp) /\ Cardinality(DOMAIN FoundKeys) = 6
    /\ Cardinality({name \in DOMAIN FoundKeys :
                      HasLastPrice(prem_resp, ColonForm(FoundKeys[name]))}) = 5
    /\ ~IsNone(spot_price)

(* C9 *)

\* a lookup of the last run failed as a whole
LookupFailed ==
    \/ FailedWhole(spot_resp) \/ FailedWhole(chain_resp) \/ FailedWhole(prem_resp)
    \/ spot_resp.kind # "none" /\ IsNone(spot_price)

\* all three lookups of the last run were issued and succeeded
AllLookupsSucceeded ==
    /\ Succeeded(spot_resp) /\ ~IsNone(spot_price)
    /\ Succeeded(chain_resp) /\ Succeeded(prem_resp)

\* C9: a run in which a lookup fails as a whole leaves the series as it was,
\* and a run whose three lookups succeed appends one row to it, whatever
\* happened in the runs before
C9_FailedRunLeavesSeries ==
    [][/\ LookupFailed' => chart_data' = chart_data
       /\ AllLookupsSucceeded' =>
             /\ Len(chart_data') = Len(chart_data) + 1
             /\ SubSeq(chart_data', 1, Len(chart_data)) = chart_data]_vars

\* a failed run with a row already in the series
C9_Witness == LookupFailed /\ Len(chart_data) >= 1

(* C10 *)

NoLookupIssued ==
    spot_resp.kind = "none" /\ chain_resp.kind = "none" /\ prem_resp.kind = "none"

\* C10: a run with an empty token issues no lookup, leaves the series as it
\* was and asks for the token; a run with a token issues the spot lookup
C10_PipelineNeedsToken ==
    [][/\ ACCESS_TOKEN' = "" =>
             NoLookupIssued' /\ chart_data' = chart_data /\ status' = "enter token"
       /\ ACCESS_TOKEN' # "" => spot_resp'.kind # "none"]_vars

\* the token was cleared after a row had been recorded
C10_Witness == ACCESS_TOKEN = "" /\ now >= 2 /\ Len(chart_data) >= 1 /\ NoLookupIssued

====
